---- MODULE Spec2Model ----
(***************************************************************************)
(* A model of app.py, the COVID-19 dashboard script.  The script is run    *)
(* from top to bottom on every page load and on every widget change; one   *)
(* run is one action here.  State that outlives a run: the files on disk,  *)
(* the st.cache_data memo of load_data, and the widget values of the       *)
(* session.  Everything else is recomputed by each run and recorded, as    *)
(* the run left it, in the variable `out` and in the script's globals.     *)
(***************************************************************************)
EXTENDS Integers, Sequences, FiniteSets, TLC

\* ---------------------------------------------------------------- bounds
\* Longest country table enumerated with every combination of field values.
MaxRows == 2
\* Long country tables have TopN + 1 .. TopN + MaxExtra rows.
MaxExtra == 1
\* Load attempts that read ml_global_prediction.csv, per process.
MaxReads == 2

\* ---------------------------------------------------------------- program constants
\* head(10)
TopN == 10

\* The options of the metric selectbox, in their order.
MetricOptions == <<"total_cases", "total_deaths", "vaccination_rate">>

\* ---------------------------------------------------------------- input data
\* Continent values of the country file, with their rank in string order.
Continents == {"AS", "EU"}

ContinentRank(c) == IF c = "AS" THEN 1 ELSE 2

CaseValues == {600, 1500}

VaxValues == {0, 55}

\* One line of country_insight_full.csv.  iso_code and population only
\* pass through to the charts and are left out.  Every cell holds a value:
\* the columns are numbers and the continent a string on every line.  total_deaths takes two
\* values, spread so that it orders the lines unlike either other metric;
\* mortality_rate is read by the reference line alone.
CsvRow(loc, c, tc, vr) ==
    LET td == IF (tc = 600) = (vr = 0) THEN 1 ELSE 5
    IN [location |-> loc, continent |-> c, total_cases |-> tc,
        total_deaths |-> td, vaccination_rate |-> vr,
        mortality_rate |-> IF td = 1 THEN 1 ELSE 4]

LocationName(i) == "L" \o ToString(i)

\* Every file of n lines over the field values above; line i is country i.
RECURSIVE SmallFiles(_)
SmallFiles(n) ==
    IF n = 0 THEN {<<>>}
    ELSE {Append(f, CsvRow(LocationName(n), c, tc, vr)) :
            f \in SmallFiles(n - 1), c \in Continents, tc \in CaseValues,
            vr \in VaxValues}

\* A file of n > TopN lines.  total_cases rises with the line number and
\* vaccination_rate falls; with g = 2 the lines on both sides of place TopN
\* of the ranking hold the same value, with g = 1 no line in the first TopN
\* places ties with one outside them.  total_deaths differs on every line
\* and follows neither.  alt = TRUE alternates the two continents.
LongFile(n, g, alt) ==
    LET low == n - TopN + g - 1
        high == TopN - g + 2
    IN [i \in 1..n |->
        [location |-> LocationName(i),
         continent |-> IF alt /\ i % 2 = 0 THEN "EU" ELSE "AS",
         total_cases |-> 600 * (IF i <= low THEN 0 ELSE i - low),
         total_deaths |-> (3 * i) % 13,
         vaccination_rate |-> 5 * (IF i >= high THEN 0 ELSE high - i),
         mortality_rate |-> i % 2]]

CountryFiles ==
    UNION {SmallFiles(n) : n \in 0..MaxRows}
    \cup {LongFile(n, g, alt) : n \in (TopN + 1)..(TopN + MaxExtra),
                                 g \in 1..2, alt \in BOOLEAN}

\* ml_global_prediction.csv: the last line is all the script computes with.
TrendFiles ==
    {<<>>, <<[new_cases_smoothed |-> 1200, prediction |-> 1300]>>}

\* ---------------------------------------------------------------- pandas
\* pd.read_csv: the lines of the file under a RangeIndex 0..n-1.
ReadCsv(file) == [i \in 1..Len(file) |-> [idx |-> i - 1] @@ file[i]]

\* df[col].unique(), as a set.
Unique(df, col) == {df[i][col] : i \in 1..Len(df)}

\* sorted(...) of a set of continent values.
RECURSIVE SortedList(_)
SortedList(S) ==
    IF S = {} THEN <<>>
    ELSE LET lo == CHOOSE c \in S : \A d \in S : ContinentRank(c) <= ContinentRank(d)
         IN <<lo>> \o SortedList(S \ {lo})

\* df[df['continent'].isin(values)]: the rows kept, labels and order kept.
IsIn(df, values) ==
    LET Keep(r) == r.continent \in values
    IN SelectSeq(df, Keep)

\* df[col].sum(): 0 for a frame without rows.
RECURSIVE SumCol(_, _)
SumCol(df, col) ==
    IF df = <<>> THEN 0 ELSE df[1][col] + SumCol(Tail(df), col)

\* df[col].mean(): the exact quotient num/den, or NaN for a frame without rows.
NaN == [nan |-> TRUE, num |-> 0, den |-> 1]

MeanCol(df, col) ==
    IF df = <<>> THEN NaN
    ELSE [nan |-> FALSE, num |-> SumCol(df, col), den |-> Len(df)]

\* df.empty
Empty(df) == Len(df) = 0

\* idxmin in the place of idxmax.
IdxMin(df, col) ==
    LET first == CHOOSE i \in 1..Len(df) :
                    /\ \A j \in 1..Len(df) : df[j][col] >= df[i][col]
                    /\ \A j \in 1..(i - 1) : df[j][col] > df[i][col]
    IN df[first].idx

\* df[col].idxmax(): the label of the first row holding the maximum.
IdxMax(df, col) ==
    LET first == CHOOSE i \in 1..Len(df) :
                    /\ \A j \in 1..Len(df) : df[j][col] <= df[i][col]
                    /\ \A j \in 1..(i - 1) : df[j][col] < df[i][col]
    IN df[first].idx

\* df.loc[label]: the row under that label.
Loc(df, label) == df[CHOOSE i \in 1..Len(df) : df[i].idx = label]

\* df.sort_values(by=col, ascending=False) with the default kind, quicksort,
\* which pandas documents as not stable: every arrangement of the rows that
\* is non-increasing in col is a result some build produces.
RECURSIVE Descending(_, _, _)
Descending(df, col, S) ==
    IF S = {} THEN {<<>>}
    ELSE LET top == {i \in S : \A j \in S : df[j][col] <= df[i][col]}
         IN UNION {{<<df[i]>> \o t : t \in Descending(df, col, S \ {i})} : i \in top}

SortValues(df, col) == Descending(df, col, 1..Len(df))

\* sort_values(..., inplace=True): the receiver takes the sorted rows.
ReceiverAfterSortInplace(df, sorted) == sorted

\* The frame sort_values was called on, after the call: inplace defaults to
\* False, so the result is a new frame and the receiver keeps its rows.
ReceiverAfterSort(df, sorted) == df

\* One row too many.
HeadRowsOffByOne(df, n) == SubSeq(df, 1, IF Len(df) < n + 1 THEN Len(df) ELSE n + 1)

\* df.head(n)
HeadRows(df, n) == SubSeq(df, 1, IF Len(df) < n THEN Len(df) ELSE n)

\* ---------------------------------------------------------------- formatting
Pad3(k) ==
    IF k < 10 THEN "00" \o ToString(k)
    ELSE IF k < 100 THEN "0" \o ToString(k) ELSE ToString(k)

RECURSIVE Grouped(_)
Grouped(n) ==
    IF n < 1000 THEN ToString(n)
    ELSE Grouped(n \div 1000) \o "," \o Pad3(n % 1000)

\* f"{x:,.0f}" of a whole number: digits in groups of three.
FormatCount(x) == IF x < 0 THEN "-" \o Grouped(0 - x) ELSE Grouped(x)

\* Tenths nearest to num/den, a tie going to the even one (the exact ties of
\* a mean of whole numbers over fewer than 20 rows are binary fractions, so
\* the float holds them exactly and rounds them half to even).
RoundTenths(num, den) ==
    LET q == (10 * num) \div den
        r == (10 * num) % den
    IN IF 2 * r > den \/ (2 * r = den /\ q % 2 = 1) THEN q + 1 ELSE q

\* f"{x:.1f}%": NaN prints as nan.
FormatRate(x) ==
    IF x.nan THEN "nan%"
    ELSE LET t == RoundTenths(x.num, x.den)
         IN ToString(t \div 10) \o "." \o ToString(t % 10) \o "%"

\* ---------------------------------------------------------------- state
VARIABLES
    disk,                 \* what the Spark job wrote: [ml, countries]
    present,              \* which of the two files is in the folder
    cache,                \* the st.cache_data memo of load_data()
    reads,                \* how often each file has been read
    selected_continents,  \* the multiselect's value in the last run
    col_map_metrics,      \* the selectbox's value in the last run
    out                   \* what the last run computed and rendered

vars == <<disk, present, cache, reads, selected_continents, col_map_metrics, out>>

NoCache == [filled |-> FALSE, df_ml |-> <<>>, df_countries |-> <<>>]

\* A run that has computed and rendered nothing.
Blank ==
    [status |-> "none", rendered |-> {}, all_continents |-> <<>>,
     df_countries |-> <<>>, df_filtered |-> <<>>,
     total_cases |-> 0, total_deaths |-> 0, avg_vax_rate |-> NaN,
     top_country |-> "", tiles |-> <<>>, err |-> "",
     map_color |-> "", map_scale |-> "", map_rows |-> <<>>,
     top10 |-> <<>>, bar_x |-> "", lines |-> <<>>]

\* ---------------------------------------------------------------- load_data
\* load_data() without @st.cache_data: every call reads both files.
LoadDataUncached ==
    IF ~present.ml
    THEN [ok |-> FALSE, cache |-> cache, reads |-> reads]
    ELSE IF ~present.countries
    THEN [ok |-> FALSE, cache |-> cache,
          reads |-> [reads EXCEPT !.ml = @ + 1]]
    ELSE [ok |-> TRUE,
          cache |-> [filled |-> TRUE, df_ml |-> ReadCsv(disk.ml),
                     df_countries |-> ReadCsv(disk.countries)],
          reads |-> [ml |-> reads.ml + 1, countries |-> reads.countries + 1]]

\* One call of the memoised load_data(): a hit returns the memo and reads
\* nothing; a miss reads the ML file, then the country file, and memoises
\* the pair only when both reads succeed (an exception is not memoised).
LoadData ==
    IF cache.filled
    THEN [ok |-> TRUE, cache |-> cache, reads |-> reads]
    ELSE IF ~present.ml
    THEN [ok |-> FALSE, cache |-> cache, reads |-> reads]
    ELSE IF ~present.countries
    THEN [ok |-> FALSE, cache |-> cache,
          reads |-> [reads EXCEPT !.ml = @ + 1]]
    ELSE [ok |-> TRUE,
          cache |-> [filled |-> TRUE, df_ml |-> ReadCsv(disk.ml),
                     df_countries |-> ReadCsv(disk.countries)],
          reads |-> [ml |-> reads.ml + 1, countries |-> reads.countries + 1]]

\* The except branch without its st.stop(): the script runs on into the
\* sidebar, where df_countries is unbound, and the page shows that exception.
StoppedWithoutStop ==
    [Blank EXCEPT !.status = "stopped",
                  !.rendered = {"style", "error", "sidebar_title", "exception"}]

\* except FileNotFoundError: st.error(...); st.stop().  The page
\* configuration and the style sheet precede the load in every run.
Stopped == [Blank EXCEPT !.status = "stopped", !.rendered = {"style", "error"}]

\* ---------------------------------------------------------------- the script
\* The filter that never filters.
FilterIgnoresSelection(df, selected) == df

\* The filter without its else branch.
FilterNoFallback(df, selected) == IsIn(df, selected)

\* Filter logic of the sidebar.
Filter(df, selected) ==
    IF selected # {} THEN IsIn(df, selected) ELSE df

TopCountry(df) ==
    IF ~Empty(df) THEN Loc(df, IdxMax(df, "total_cases")).location ELSE "-"

\* Reference lines of the bubble chart: <<hline y, vline x>>, or none.
ReferenceLines(df) ==
    IF ~Empty(df)
    THEN <<MeanCol(df, "mortality_rate"), MeanCol(df, "vaccination_rate")>>
    ELSE <<>>

\* Sidebar and KPI tiles: the script up to the tabs.
Kpis(c, selected) ==
    LET df == Filter(c.df_countries, selected)
    IN [Blank EXCEPT
          !.rendered = {"style", "sidebar_title", "multiselect", "header", "kpi"},
          !.all_continents = SortedList(Unique(c.df_countries, "continent")),
          !.df_countries = c.df_countries,
          !.df_filtered = df,
          !.total_cases = SumCol(df, "total_cases"),
          !.total_deaths = SumCol(df, "total_deaths"),
          !.avg_vax_rate = MeanCol(df, "vaccination_rate"),
          !.top_country = TopCountry(df),
          !.tiles = <<FormatCount(SumCol(df, "total_cases")),
                      FormatCount(SumCol(df, "total_deaths")),
                      FormatRate(MeanCol(df, "vaccination_rate")),
                      TopCountry(df)>>]

\* Tab 1: the trend chart, then the last row's error; df_trend.iloc[-1]
\* raises IndexError on a trend table without rows and the run ends there.
Tab1(o, c) ==
    IF Empty(c.df_ml)
    THEN [o EXCEPT !.status = "tab1_error",
                   !.rendered = @ \cup {"trend_chart", "exception"}]
    ELSE LET last_row == c.df_ml[Len(c.df_ml)]
         IN [o EXCEPT !.status = "ok",
                      !.rendered = @ \cup {"trend_chart", "model_status"},
                      !.err = FormatCount(last_row.new_cases_smoothed
                                          - last_row.prediction)]

\* Tab 2: the map and the top-10 bar chart; sorted is what sort_values
\* returned.  With no continent selected df_filtered is df_countries itself,
\* not a copy of it.
Tab2(o, selected, metric, sorted) ==
    LET after == ReceiverAfterSort(o.df_filtered, sorted)
    IN [o EXCEPT
          !.rendered = @ \cup {"metric_selectbox", "map", "bar"},
          !.map_color = metric,
          !.map_scale = IF metric # "vaccination_rate" THEN "Reds" ELSE "Greens",
          !.map_rows = o.df_filtered,
          !.top10 = HeadRows(sorted, TopN),
          !.bar_x = metric,
          !.df_filtered = after,
          !.df_countries = IF selected # {} THEN @ ELSE after]

\* Tab 3: the bubble chart and its reference lines.
Tab3(o) ==
    [o EXCEPT !.rendered = @ \cup {"bubble"},
              !.lines = ReferenceLines(o.df_filtered)]

\* One run of the script, top to bottom.  fresh: a new session, whose
\* widgets return their defaults (every continent, the first metric);
\* otherwise they return sel and metric, the session's values.  A widget
\* the run does not reach loses its session value.
Run(fresh, sel, metric) ==
    LET load == LoadData
    IN /\ cache' = load.cache
       /\ reads' = load.reads
       /\ UNCHANGED <<disk, present>>
       /\ IF ~load.ok
          THEN /\ out' = Stopped
               /\ selected_continents' = {}
               /\ col_map_metrics' = MetricOptions[1]
          ELSE LET c == load.cache
                   selected == IF fresh THEN Unique(c.df_countries, "continent")
                               ELSE sel
                   t1 == Tab1(Kpis(c, selected), c)
                   m == IF fresh THEN MetricOptions[1] ELSE metric
               IN /\ selected_continents' = selected
                  /\ IF t1.status = "tab1_error"
                     THEN /\ out' = t1
                          /\ col_map_metrics' = MetricOptions[1]
                     ELSE /\ col_map_metrics' = m
                          /\ \E sorted \in SortValues(t1.df_filtered, m) :
                                out' = Tab3(Tab2(t1, selected, m, sorted))

\* ---------------------------------------------------------------- actions
Init ==
    /\ disk \in [ml : TrendFiles, countries : CountryFiles]
    /\ present \in [ml : BOOLEAN, countries : BOOLEAN]
    /\ cache = NoCache
    /\ reads = [ml |-> 0, countries |-> 0]
    /\ selected_continents = {}
    /\ col_map_metrics = MetricOptions[1]
    /\ out = Blank

\* The user puts a missing file into the folder, as the error message asks.
PlaceFile(f) ==
    /\ ~present[f]
    /\ present' = [present EXCEPT ![f] = TRUE]
    /\ UNCHANGED <<disk, cache, reads, selected_continents, col_map_metrics, out>>

\* The page is opened or reloaded in the browser: a new session.
OpenPage ==
    /\ cache.filled \/ ~present.ml \/ reads.ml < MaxReads
    /\ Run(TRUE, {}, MetricOptions[1])

\* The user changes the continent multiselect, which the last run rendered,
\* to another subset of its options (the empty one included).
ChangeContinents ==
    /\ "multiselect" \in out.rendered
    /\ \E sel \in SUBSET Unique(cache.df_countries, "continent") :
          /\ sel # selected_continents
          /\ Run(FALSE, sel, col_map_metrics)

\* The user picks another metric in the selectbox, which the last run rendered.
ChangeMetric ==
    /\ "metric_selectbox" \in out.rendered
    /\ \E i \in 1..Len(MetricOptions) :
          /\ MetricOptions[i] # col_map_metrics
          /\ Run(FALSE, selected_continents, MetricOptions[i])

\* The user reruns the page with the widgets as they are.
Rerun ==
    /\ "multiselect" \in out.rendered
    /\ Run(FALSE, selected_continents, col_map_metrics)

Next ==
    \/ \E f \in {"ml", "countries"} : PlaceFile(f)
    \/ OpenPage
    \/ ChangeContinents
    \/ ChangeMetric
    \/ Rerun

Spec == Init /\ [][Next]_vars

\* ---------------------------------------------------------------- properties: shared terms
\* The cached country table, and the places of its records that the
\* continent selection sel lets through (every place when sel is empty).
Table == cache.df_countries

Chosen(sel) ==
    {i \in 1..Len(Table) : sel = {} \/ Table[i].continent \in sel}

RECURSIVE SumOver(_, _)
SumOver(S, col) ==
    IF S = {} THEN 0
    ELSE LET i == CHOOSE j \in S : TRUE
         IN Table[i][col] + SumOver(S \ {i}, col)

Smaller(a, b) == IF a < b THEN a ELSE b

KpiRun == "kpi" \in out.rendered

RankRun == "bar" \in out.rendered

\* ---------------------------------------------------------------- C1
\* C1: with a non-empty continent selection C, the total-cases figure (the
\* number and the tile's text) is the sum of total_cases over exactly the
\* records whose continent is in C.
C1_FilteredSum ==
    (KpiRun /\ selected_continents # {}) =>
        LET inC == {i \in 1..Len(Table) : Table[i].continent \in selected_continents}
        IN /\ out.total_cases = SumOver(inC, "total_cases")
           /\ out.tiles[1] = FormatCount(SumOver(inC, "total_cases"))
           /\ {r.idx : r \in {out.df_filtered[k] : k \in 1..Len(out.df_filtered)}}
                = {Table[i].idx : i \in inC}

\* A run whose selection lets some records through and keeps others out.
C1_Witness ==
    /\ KpiRun
    /\ selected_continents # {}
    /\ \E i, j \in 1..Len(Table) :
          /\ Table[i].continent \in selected_continents
          /\ Table[j].continent \notin selected_continents
    /\ out.total_cases >= 1000

\* ---------------------------------------------------------------- C2
\* C2: a run with no continent selected has the same filtered set and the
\* same four summary statistics as the script computes for the selection
\* of every continent present in the table.
C2_FallbackToAll ==
    (KpiRun /\ selected_continents = {}) =>
        LET full == Kpis(cache, {Table[i].continent : i \in 1..Len(Table)})
        IN /\ out.map_rows = IF RankRun THEN full.df_filtered ELSE <<>>
           /\ Len(full.df_filtered) = Len(Table)
           /\ out.total_cases = full.total_cases
           /\ out.total_deaths = full.total_deaths
           /\ out.avg_vax_rate = full.avg_vax_rate
           /\ out.top_country = full.top_country
           /\ out.tiles = full.tiles

C2_Witness ==
    /\ KpiRun
    /\ RankRun
    /\ selected_continents = {}
    /\ {Table[i].continent : i \in 1..Len(Table)} = Continents

\* ---------------------------------------------------------------- C3
\* C3: the top-10 holds min(10, n) distinct records of the filtered set,
\* in non-increasing order of the chosen metric, and no record left out
\* has a strictly larger metric value than one in it.
C3_Rank ==
    RankRun =>
        LET F == Chosen(selected_continents)
            m == col_map_metrics
            R == out.top10
        IN /\ out.bar_x = m
           /\ Len(R) = Smaller(TopN, Cardinality(F))
           /\ \A k \in 1..Len(R) : \E i \in F : R[k] = Table[i]
           /\ \A k, l \in 1..Len(R) : k # l => R[k].idx # R[l].idx
           /\ \A k \in 1..(Len(R) - 1) : R[k][m] >= R[k + 1][m]
           /\ \A i \in F :
                 (\A k \in 1..Len(R) : R[k] # Table[i])
                    => \A k \in 1..Len(R) : Table[i][m] <= R[k][m]

\* A filtered set of more than ten records, cut to ten.
C3_Witness ==
    /\ RankRun
    /\ Cardinality(Chosen(selected_continents)) > TopN
    /\ Len(out.top10) = TopN
    /\ col_map_metrics = "vaccination_rate"

\* ---------------------------------------------------------------- C4
\* C4: records of equal metric value stand in the ranking in their input
\* order, and of tied records the earlier ones are kept at the cut.
C4_StableRank ==
    RankRun =>
        LET F == Chosen(selected_continents)
            m == col_map_metrics
            R == out.top10
        IN /\ \A k, l \in 1..Len(R) :
                 (k < l /\ R[k][m] = R[l][m]) => R[k].idx < R[l].idx
           /\ \A i \in F, k \in 1..Len(R) :
                 ((\A l \in 1..Len(R) : R[l] # Table[i]) /\ Table[i][m] = R[k][m])
                    => R[k].idx < Table[i].idx

\* ---------------------------------------------------------------- C5
\* C5: with an empty filtered set the tiles show "-" as top country, 0 and
\* 0 as sums and "-" as mean vaccination rate, and the bubble chart gets
\* no reference lines.
C5_EmptyFilteredSet ==
    (KpiRun /\ "bubble" \in out.rendered /\ Chosen(selected_continents) = {}) =>
        /\ out.top_country = "-"
        /\ out.total_cases = 0
        /\ out.total_deaths = 0
        /\ out.tiles = <<"0", "0", "-", "-">>
        /\ out.lines = <<>>

\* ---------------------------------------------------------------- C6
\* C6: with a non-empty filtered set the top-country tile names a record
\* of the filtered set whose total_cases no record of the set exceeds.
C6_TopCountry ==
    (KpiRun /\ Chosen(selected_continents) # {}) =>
        LET F == Chosen(selected_continents)
        IN /\ out.tiles[4] = out.top_country
           /\ \E i \in F :
                 /\ Table[i].location = out.top_country
                 /\ \A j \in F : Table[j].total_cases <= Table[i].total_cases

\* A record the filter keeps out has more cases than every record it lets in.
C6_Witness ==
    /\ KpiRun
    /\ selected_continents # {}
    /\ Chosen(selected_continents) # {}
    /\ \E j \in 1..Len(Table) :
          /\ j \notin Chosen(selected_continents)
          /\ \A i \in Chosen(selected_continents) :
                Table[i].total_cases < Table[j].total_cases

\* ---------------------------------------------------------------- C7
\* C7: a run that starts while one of the two files is absent ends stopped,
\* with the error message on the otherwise empty, styled page (no continent
\* filter, tile, chart or map) and nothing cached.
C7_MissingInputHalts ==
    [][(~(present.ml /\ present.countries) /\ present' = present)
          => /\ out'.status = "stopped"
             /\ out'.rendered = {"style", "error"}
             /\ ~cache'.filled]_vars

\* A run stopped at the second file, the first having been read.
C7_Witness ==
    /\ out.status = "stopped"
    /\ present.ml
    /\ ~present.countries
    /\ reads.ml > 0

\* ---------------------------------------------------------------- C8
\* C8 as stated: in a process whose dashboard has come up, so that filter
\* and metric can be changed, each of the two files has been read at most
\* once in total.
C8_ReadAtMostOnce ==
    "multiselect" \in out.rendered => (reads.ml <= 1 /\ reads.countries <= 1)

\* C8 as amended: the country file is read at most once, and once a load
\* has succeeded no run reads either file or replaces the cached tables.
C8_NoReadAfterLoad ==
    [][/\ reads'.countries <= 1
       /\ cache.filled => (reads' = reads /\ cache' = cache)]_vars

\* Filter and metric have both been changed since the load.
C8_Witness ==
    /\ cache.filled
    /\ out.status = "ok"
    /\ col_map_metrics # MetricOptions[1]
    /\ selected_continents # {Table[i].continent : i \in 1..Len(Table)}
    /\ reads.countries = 1

\* ---------------------------------------------------------------- C10
\* C10: the cached country table, and the script's df_countries after every
\* run that got past loading, hold the rows of the file as read_csv
\* delivered them: same rows, same values, same order.
C10_SourceNotMutated ==
    /\ cache.filled =>
          /\ Len(Table) = Len(disk.countries)
          /\ \A i \in 1..Len(Table) :
                /\ Table[i].idx = i - 1
                /\ \A col \in DOMAIN disk.countries[i] :
                      Table[i][col] = disk.countries[i][col]
    /\ KpiRun => out.df_countries = Table

\* A run with no continent selected, where df_filtered is df_countries
\* itself, whose ranking differs from the table's own order.
C10_Witness ==
    /\ RankRun
    /\ selected_continents = {}
    /\ Len(Table) > 1
    /\ out.top10 # HeadRows(Table, TopN)

====
